---------------------------- MODULE Spec2Model ----------------------------
(***************************************************************************)
(* A model of src/app.py, the password-gated macro risk dashboard:         *)
(* the login gate and the startup sequence of one script run, the cached   *)
(* batch fetch, the master table builder, the three analytics functions    *)
(* and the section parser of the AI narrative.                             *)
(*                                                                         *)
(* Numbers are percentages scaled by 100 (4.5 is 450, -0.05 is -5), so     *)
(* every threshold of the source is an integer.  An absent value (NaN) is  *)
(* the empty tuple and a present value v the one-element tuple <<v>>; a    *)
(* comparison with an absent value is false, as it is for a NaN.           *)
(* A pandas Series is a function from its index (a set of dates, which     *)
(* are positive integers) to such values; its order is the order of the    *)
(* dates.                                                                  *)
(***************************************************************************)
EXTENDS Integers, Sequences, FiniteSets, TLC

VARIABLES
    \* ---- the session and one script run (lines 25-76)
    secrets,            \* st.secrets: the credential mapping and the two API keys
    genai_ok,           \* whether importing and configuring the AI client succeeds
    password_correct,   \* st.session_state['password_correct']
    pc,                 \* position of the current script run
    submit_btn,         \* the login form's button, in the current run
    username,           \* st.text_input "username" of the current run
    password,           \* st.text_input "password" of the current run
    login_error,        \* the st.error shown by check_password in this run
    GEMINI_AVAILABLE,   \* the AI capability flag ("unset" until line 66/70/73)
    fred,               \* whether the data-provider client exists (line 76)
    fred_called,        \* whether this run has issued a data-provider request
    genai_called,       \* whether this run has issued an AI-service request
    submissions,        \* history: the login submissions made so far
    auth_at_start,      \* history: password_correct when the current run began
    \* ---- the pure functions, each called once on an input
    returned,           \* whether the function under check has returned
    yield_curve_series, \* find_inversion_periods: its argument
    inversions,         \* find_inversion_periods: its result
    yield_curve,        \* determine_scenario: the latest yield-curve value
    policy_spread,      \* determine_scenario: the latest policy spread
    scenario,           \* determine_scenario: its result
    risk_df,            \* assess_macro_risk: its argument, a table of columns
    risk_info,          \* assess_macro_risk: its result
    text,               \* extract_section: the response text
    section_name,       \* extract_section: the marker
    section,            \* extract_section: its result (None or Some(string))
    \* ---- the data pipeline (lines 151-208)
    empty_index,        \* the index of pd.Series(dtype=float): "object" (pandas
                        \* before 2.0) or "range" (pandas 2.0 and later)
    series_dict,        \* the collection load_all_series returned
    st_warnings,        \* the names st.warning reported while fetching
    df,                 \* the table build_master_df returned
    df_before_fill,     \* history: the table as it was before line 204
    raised,             \* the exception that ended the pipeline, or "none"
    step,               \* position of the pipeline
    \* ---- the data provider and the two caches (lines 151-189)
    today,              \* the provider: the date of its latest observation
    failing,            \* the provider: the series whose request fails now
    now,                \* the clock, in seconds
    fetch_cache,        \* st.cache_data of fetch_series_with_ffill
    load_cache,         \* st.cache_data of load_all_series
    history             \* history: the calls of load_all_series so far

authVars == <<secrets, genai_ok, password_correct, pc, submit_btn, username,
              password, login_error, GEMINI_AVAILABLE, fred, fred_called,
              genai_called, submissions, auth_at_start>>

invVars == <<yield_curve_series, inversions>>

scenVars == <<yield_curve, policy_spread, scenario>>
riskVars == <<risk_df, risk_info>>

extractVars == <<text, section_name, section>>

dataVars == <<empty_index, series_dict, st_warnings, df, df_before_fill,
              raised, step>>

cacheVars == <<today, failing, now, fetch_cache, load_cache, history>>

vars == <<authVars, returned, invVars, scenVars, riskVars, extractVars,
          dataVars, cacheVars>>

-----------------------------------------------------------------------------
(* Absent and present values. *)
None == <<>>
Some(v) == <<v>>
isna(x) == x = None
Lt(x, c) == x # None /\ x[1] < c
Gt(x, c) == x # None /\ x[1] > c
Ge(x, c) == x # None /\ x[1] >= c
Sub(a, b) == IF a = None \/ b = None THEN None ELSE Some(a[1] - b[1])

SetMax(S) == CHOOSE m \in S : \A x \in S : x <= m
SetMin(S) == CHOOSE m \in S : \A x \in S : m <= x

-----------------------------------------------------------------------------
(* The session: login gate and startup.                                    *)

MaxSubmissions == 2

Usernames == {"admin", "guest", "nobody"}
Passwords == {"pw1", "pw2"}

\* The [passwords] table of the secrets: a mapping, missing, or malformed
\* (not a mapping, so that looking a name up in it raises).
PasswordTables ==
    { [kind |-> "mapping", table |-> t] :
        t \in UNION { [S -> Passwords] : S \in SUBSET {"admin", "guest"} } }
    \cup { [kind |-> "absent", table |-> <<>>],
           [kind |-> "malformed", table |-> <<>>] }

SecretsStore ==
    [passwords : PasswordTables, FRED_API_KEY : BOOLEAN, GEMINI_API_KEY : BOOLEAN]

\* Lines 39-40: the outcome of one credential check.
\*   "ok" / "bad_password" / "no_user" / "exception"
CredentialCheck(sec, u, p) ==
    IF sec.passwords.kind = "malformed" THEN "exception"
    ELSE IF sec.passwords.kind = "mapping" /\ u \in DOMAIN sec.passwords.table
         THEN IF p = sec.passwords.table[u] THEN "ok" ELSE "bad_password"
         ELSE "no_user"

InitAuth ==
    /\ secrets \in SecretsStore
    /\ genai_ok \in BOOLEAN
    /\ password_correct = FALSE
    /\ pc = "idle"
    /\ submit_btn = FALSE
    /\ username = ""
    /\ password = ""
    /\ login_error = "none"
    /\ GEMINI_AVAILABLE = "unset"
    /\ fred = FALSE
    /\ fred_called = FALSE
    /\ genai_called = FALSE
    /\ submissions = <<>>
    /\ auth_at_start = FALSE

RunOver == pc \in {"idle", "stopped_login", "stopped_config", "done"}

\* A page load or a widget interaction that is not a login submission: the
\* script is run again from the top.
PageLoad ==
    /\ RunOver
    /\ pc' = "check_password"
    /\ submit_btn' = FALSE
    /\ login_error' = "none"
    /\ GEMINI_AVAILABLE' = "unset"
    /\ fred' = FALSE
    /\ fred_called' = FALSE
    /\ genai_called' = FALSE
    /\ auth_at_start' = password_correct
    /\ UNCHANGED <<secrets, genai_ok, password_correct, username, password,
                   submissions>>

\* The user fills the login form of the previous run and presses the button
\* (lines 32-35); the form exists only after a run that stopped at the gate.
SubmitLogin(u, p) ==
    /\ pc = "stopped_login"
    /\ Len(submissions) < MaxSubmissions
    /\ pc' = "check_password"
    /\ submit_btn' = TRUE
    /\ username' = u
    /\ password' = p
    /\ submissions' = Append(submissions, [username |-> u, password |-> p])
    /\ login_error' = "none"
    /\ GEMINI_AVAILABLE' = "unset"
    /\ fred' = FALSE
    /\ fred_called' = FALSE
    /\ genai_called' = FALSE
    /\ auth_at_start' = password_correct
    /\ UNCHANGED <<secrets, genai_ok, password_correct>>

\* (mutant) the password comparison of line 40 left out.
FlagAfterCheck_NoPasswordCompare(flag, r) ==
    IF r \in {"ok", "bad_password"} THEN TRUE ELSE flag

\* The new value of the session flag after a submission with outcome r.
FlagAfterCheck(flag, r) == IF r = "ok" THEN TRUE ELSE flag

\* Where check_password leaves the run after a submission with outcome r:
\* st.rerun() (line 42) abandons the run, every other outcome returns False
\* and the run stops at line 53.
PcAfterCheck(r) == IF r = "ok" THEN "rerun" ELSE "stopped_login"

\* Lines 25-53: check_password and the gate on its result.
check_password ==
    /\ pc = "check_password"
    /\ IF password_correct
       THEN /\ pc' = "fred_key"
            /\ UNCHANGED <<password_correct, login_error>>
       ELSE IF submit_btn
            THEN LET r == CredentialCheck(secrets, username, password) IN
                 /\ password_correct' = FlagAfterCheck(password_correct, r)
                 /\ login_error' = (IF r = "ok" THEN "none" ELSE r)
                 /\ pc' = PcAfterCheck(r)
            ELSE /\ pc' = "stopped_login"
                 /\ UNCHANGED <<password_correct, login_error>>
    /\ UNCHANGED <<secrets, genai_ok, submit_btn, username, password,
                   GEMINI_AVAILABLE, fred, fred_called, genai_called,
                   submissions, auth_at_start>>

\* Line 42: st.rerun() starts the script again, with no button pressed.
Rerun ==
    /\ pc = "rerun"
    /\ pc' = "check_password"
    /\ submit_btn' = FALSE
    /\ login_error' = "none"
    /\ auth_at_start' = password_correct
    /\ UNCHANGED <<secrets, genai_ok, password_correct, username, password,
                   GEMINI_AVAILABLE, fred, fred_called, genai_called,
                   submissions>>

\* (mutant) a missing data-provider key treated as a warning.
PcAfterFredKey_Optional(sec) == "gemini"

\* Where the run goes after reading the data-provider key (lines 58-62).
PcAfterFredKey(sec) == IF sec.FRED_API_KEY THEN "gemini" ELSE "stopped_config"

\* Lines 58-62: the data-provider key is mandatory.
LoadFredKey ==
    /\ pc = "fred_key"
    /\ pc' = PcAfterFredKey(secrets)
    /\ UNCHANGED <<secrets, genai_ok, password_correct, submit_btn, username,
                   password, login_error, GEMINI_AVAILABLE, fred, fred_called,
                   genai_called, submissions, auth_at_start>>

\* Where the run goes after the AI client's initialisation (lines 64-74).
PcAfterGemini(sec, ok) == "fred"

\* Lines 64-74: the AI key is optional; a missing key (KeyError) or a failing
\* import/configure (Exception) clears the capability flag.
InitGemini ==
    /\ pc = "gemini"
    /\ GEMINI_AVAILABLE' = (secrets.GEMINI_API_KEY /\ genai_ok)
    /\ pc' = PcAfterGemini(secrets, genai_ok)
    /\ UNCHANGED <<secrets, genai_ok, password_correct, submit_btn, username,
                   password, login_error, fred, fred_called, genai_called,
                   submissions, auth_at_start>>

\* Line 76: the data-provider client.
CreateFred ==
    /\ pc = "fred"
    /\ fred' = TRUE
    /\ pc' = "ready"
    /\ UNCHANGED <<secrets, genai_ok, password_correct, submit_btn, username,
                   password, login_error, GEMINI_AVAILABLE, fred_called,
                   genai_called, submissions, auth_at_start>>

\* Lines 151-189: the dashboard body fetches the series through the client.
FetchData ==
    /\ pc = "ready"
    /\ fred
    /\ fred_called' = TRUE
    /\ pc' = "fetched"
    /\ UNCHANGED <<secrets, genai_ok, password_correct, submit_btn, username,
                   password, login_error, GEMINI_AVAILABLE, fred, genai_called,
                   submissions, auth_at_start>>

\* Lines 376-384: the AI summary calls the service only when the capability
\* flag is set, and returns the placeholder otherwise.
generate_market_summary ==
    /\ pc = "fetched"
    /\ genai_called' = (GEMINI_AVAILABLE = TRUE)
    /\ pc' = "done"
    /\ UNCHANGED <<secrets, genai_ok, password_correct, submit_btn, username,
                   password, login_error, GEMINI_AVAILABLE, fred, fred_called,
                   submissions, auth_at_start>>

NextAuth ==
    \/ PageLoad
    \/ \E u \in Usernames, p \in Passwords : SubmitLogin(u, p)
    \/ check_password
    \/ Rerun
    \/ LoadFredKey
    \/ InitGemini
    \/ CreateFred
    \/ FetchData
    \/ generate_market_summary

-----------------------------------------------------------------------------
(* Claims about the session.                                               *)

\* A submission that names a key of the credential mapping together with the
\* password stored for it.
Matches(sub) ==
    /\ secrets.passwords.kind = "mapping"
    /\ sub.username \in DOMAIN secrets.passwords.table
    /\ secrets.passwords.table[sub.username] = sub.password

\* The submissions check_password has already handled.
Handled ==
    IF pc = "check_password" /\ submit_btn
    THEN SubSeq(submissions, 1, Len(submissions) - 1)
    ELSE submissions

\* C1: the session flag is true exactly when some submission already handled
\* supplied a known username with its stored password; the flag never goes
\* back from true to false; and the credential mapping never changes.
C1_AuthenticatedIffMatched ==
    /\ [](password_correct <=> \E i \in 1..Len(Handled) : Matches(Handled[i]))
    /\ [][password_correct => password_correct']_vars
    /\ [][secrets' = secrets]_vars

\* C1 witness: a rejected submission followed by an accepted one, and a run
\* that then went through without asking again.
C1_Witness ==
    /\ password_correct
    /\ Len(submissions) = 2
    /\ ~Matches(submissions[1])
    /\ Matches(submissions[2])
    /\ pc = "done"

PastStartup == pc \in {"ready", "fetched", "done"}
Halted == pc \in {"stopped_login", "stopped_config", "rerun"}

\* C2: a run is past startup (the client exists, requests can be issued)
\* only if the session was authenticated when the run began and the
\* data-provider key is present; a run that halted was unauthenticated or
\* lacks that key and has called neither service; the AI step never halts a
\* run, it only leaves the capability flag false when the AI key is missing
\* or the initialisation fails.
C2_StartupGate ==
    /\ [](PastStartup => auth_at_start /\ secrets.FRED_API_KEY /\ fred)
    /\ [](Halted => /\ ~(auth_at_start /\ secrets.FRED_API_KEY)
                    /\ ~fred /\ ~fred_called /\ ~genai_called)
    /\ [](fred_called \/ genai_called => PastStartup)
    /\ [](pc \in {"fred", "ready", "fetched", "done"} =>
            GEMINI_AVAILABLE = (secrets.GEMINI_API_KEY /\ genai_ok))
    /\ [](genai_called => GEMINI_AVAILABLE = TRUE)
    /\ [][pc = "gemini" => pc' = "fred"]_vars

\* C2 witness: a run that completed with the AI key missing: the provider
\* was called, the AI service was not.
C2_Witness ==
    /\ pc = "done"
    /\ ~secrets.GEMINI_API_KEY
    /\ GEMINI_AVAILABLE = FALSE
    /\ fred_called
    /\ ~genai_called

-----------------------------------------------------------------------------
(* Series.                                                                 *)

RECURSIVE SortedDates(_)
\* The labels of an index in date order.
SortedDates(S) ==
    IF S = {} THEN <<>>
    ELSE LET m == SetMin(S) IN <<m>> \o SortedDates(S \ {m})

\* pd.Series(dtype=float): no labels, no values.
EmptySeries == <<>>

\* Every series on the dates 1..n, n <= maxLen, with values in V.
SeriesUpTo(maxLen, V) == UNION { [1..n -> V] : n \in 0..maxLen }

-----------------------------------------------------------------------------
(* find_inversion_periods (lines 213-232).                                 *)

MaxLen == 5

InvValues == {None, Some(-10), Some(0), Some(30)}

\* The yield-curve values 0.5, -0.1, -0.2, 0.3, -0.05 on the dates D1..D5.
ExampleCurve ==
    [d \in 1..5 |->
        CASE d = 1 -> Some(50) [] d = 2 -> Some(-10) [] d = 3 -> Some(-20)
          [] d = 4 -> Some(30) [] OTHER -> Some(-5)]

\* (mutant) the interval is closed only by a strictly positive value.
InvStep_CloseOnPositive(st, date, val) ==
    IF isna(val) THEN st
    ELSE IF Lt(val, 0) /\ ~st.in_inv
         THEN [st EXCEPT !.in_inv = TRUE, !.start = date]
    ELSE IF Gt(val, 0) /\ st.in_inv
         THEN [st EXCEPT !.inversions = Append(@, <<st.start, date>>),
                         !.in_inv = FALSE]
    ELSE st

\* (mutant) the interval is opened by a value that is zero or negative.
InvStep_OpenOnZero(st, date, val) ==
    IF isna(val) THEN st
    ELSE IF ~Gt(val, 0) /\ ~st.in_inv
         THEN [st EXCEPT !.in_inv = TRUE, !.start = date]
    ELSE IF Ge(val, 0) /\ st.in_inv
         THEN [st EXCEPT !.inversions = Append(@, <<st.start, date>>),
                         !.in_inv = FALSE]
    ELSE st

\* Lines 220-227: one iteration of the loop over (date, val).
InvStep(st, date, val) ==
    IF isna(val) THEN st
    ELSE IF Lt(val, 0) /\ ~st.in_inv
         THEN [st EXCEPT !.in_inv = TRUE, !.start = date]
    ELSE IF Ge(val, 0) /\ st.in_inv
         THEN [st EXCEPT !.inversions = Append(@, <<st.start, date>>),
                         !.in_inv = FALSE]
    ELSE st

RECURSIVE InvLoop(_, _, _, _)
\* Line 219: the loop over the items of the series, from the i-th date on.
InvLoop(series, dates, i, st) ==
    IF i > Len(dates) THEN st
    ELSE InvLoop(series, dates, i + 1, InvStep(st, dates[i], series[dates[i]]))

\* Lines 213-232.
find_inversion_periods(series) ==
    LET dates == SortedDates(DOMAIN series)
        st == InvLoop(series, dates, 1,
                      [inversions |-> <<>>, in_inv |-> FALSE, start |-> 0])
    IN  IF st.in_inv
        THEN Append(st.inversions, <<st.start, dates[Len(dates)]>>)
        ELSE st.inversions

IdleInv ==
    /\ yield_curve_series = EmptySeries
    /\ inversions = <<>>

InitInversion ==
    /\ yield_curve_series \in SeriesUpTo(MaxLen, InvValues) \cup {ExampleCurve}
    /\ inversions = <<>>

CallFindInversionPeriods ==
    /\ ~returned
    /\ inversions' = find_inversion_periods(yield_curve_series)
    /\ returned' = TRUE
    /\ UNCHANGED yield_curve_series

\* C5/C10 vocabulary: the values of a series by sign.
Present(series) == {d \in DOMAIN series : series[d] # None}
Negative(series, d) == series[d] # None /\ series[d][1] < 0
NonNegative(series, d) == series[d] # None /\ series[d][1] >= 0

\* A date opens an interval when its value is strictly negative and the
\* value seen before it, if any, is >= 0.
OpeningDates(series) ==
    {d \in DOMAIN series :
        /\ Negative(series, d)
        /\ LET before == {e \in Present(series) : e < d}
           IN  before = {} \/ NonNegative(series, SetMax(before))}

\* The end of the interval opened at d: the date of the next value >= 0, or
\* the last date of the series.
ClosingDate(series, d) ==
    LET later == {e \in DOMAIN series : e > d /\ NonNegative(series, e)}
    IN  IF later = {} THEN SetMax(DOMAIN series) ELSE SetMin(later)

ExpectedInversions(series) ==
    LET opens == SortedDates(OpeningDates(series))
    IN  [i \in 1..Len(opens) |-> <<opens[i], ClosingDate(series, opens[i])>>]

\* C5: the result is the chronological list of intervals, each opened by the
\* first strictly negative value seen while none is open and closed at the
\* date of the next value >= 0, or at the last date of the series when none
\* follows; the literal example gives (D2, D4) and (D5, D5).
C5_InversionsAsScanned ==
    returned =>
        /\ inversions = ExpectedInversions(yield_curve_series)
        /\ yield_curve_series = ExampleCurve => inversions = <<<<2, 4>>, <<5, 5>>>>

\* C5 witness: the literal example, with its two intervals.
C5_Witness ==
    /\ returned
    /\ yield_curve_series = ExampleCurve
    /\ inversions = <<<<2, 4>>, <<5, 5>>>>

\* C10 as stated: start <= end, consecutive pairs do not overlap, and the
\* value is strictly negative at every date from start THROUGH end that has
\* a value.
C10_NegativeThroughEnd ==
    returned =>
        \A i \in 1..Len(inversions) :
            LET start == inversions[i][1]
                end == inversions[i][2]
            IN  /\ start <= end
                /\ i < Len(inversions) => end <= inversions[i + 1][1]
                /\ \A d \in Present(yield_curve_series) :
                       start <= d /\ d <= end => Negative(yield_curve_series, d)

\* C10 amended: start <= end, consecutive pairs do not overlap, and the value
\* is strictly negative at every date from start up to but EXCLUDING end that
\* has a value; the end date carries the first value >= 0 after start, or is
\* the last date of the series when no such value follows.
C10_NegativeBeforeEnd ==
    returned =>
        \A i \in 1..Len(inversions) :
            LET start == inversions[i][1]
                end == inversions[i][2]
            IN  /\ start <= end
                /\ i < Len(inversions) => end < inversions[i + 1][1]
                /\ \A d \in Present(yield_curve_series) :
                       start <= d /\ d < end => Negative(yield_curve_series, d)
                /\ Negative(yield_curve_series, start)
                /\ \/ NonNegative(yield_curve_series, end)
                   \/ end = SetMax(DOMAIN yield_curve_series)

\* C10 witness: two intervals, the first closed by a recovery and holding an
\* absent value inside, the second still open on the last date.
C10_Witness ==
    /\ returned
    /\ Len(inversions) = 2
    /\ NonNegative(yield_curve_series, inversions[1][2])
    /\ \E d \in DOMAIN yield_curve_series :
           /\ inversions[1][1] < d /\ d < inversions[1][2]
           /\ yield_curve_series[d] = None
    /\ Negative(yield_curve_series, inversions[2][2])

-----------------------------------------------------------------------------
(* determine_scenario (lines 333-345) and SCENARIOS (lines 81-146).        *)

\* The scenario knowledge base, by identifier: the regime each entry
\* describes and its display colour.
SCENARIOS ==
    [i \in {1, 2, 3, 4} |->
        CASE i = 1 -> [regime |-> "stagflation concern", color |-> "#f57f17"]
          [] i = 2 -> [regime |-> "recession warning", color |-> "#c62828"]
          [] i = 3 -> [regime |-> "healthy growth", color |-> "#2e7d32"]
          [] OTHER -> [regime |-> "policy pivot", color |-> "#1565c0"]]

\* (mutant) a flat curve counted as inverted.
determine_scenario_InvertedAtZero(yc, ps) ==
    LET inverted == ~Gt(yc, 0)
        easing_expected == Lt(ps, 0)
    IN  IF inverted /\ ~easing_expected THEN 1
        ELSE IF inverted /\ easing_expected THEN 2
        ELSE IF ~inverted /\ ~easing_expected THEN 3
        ELSE 4

\* Lines 333-345.
determine_scenario(yc, ps) ==
    LET inverted == Lt(yc, 0)
        easing_expected == Lt(ps, 0)
    IN  IF inverted /\ ~easing_expected THEN 1
        ELSE IF inverted /\ easing_expected THEN 2
        ELSE IF ~inverted /\ ~easing_expected THEN 3
        ELSE 4

ScenarioValues ==
    {None} \cup {Some(v) : v \in {-20, -10, -1, 0, 1, 30, 40}}

IdleScen ==
    /\ yield_curve = None
    /\ policy_spread = None
    /\ scenario = 0

InitScenario ==
    /\ yield_curve \in ScenarioValues
    /\ policy_spread \in ScenarioValues
    /\ scenario = 0

CallDetermineScenario ==
    /\ ~returned
    /\ scenario' = determine_scenario(yield_curve, policy_spread)
    /\ returned' = TRUE
    /\ UNCHANGED <<yield_curve, policy_spread>>

\* C7: the result is one identifier in 1..4 and a key of SCENARIOS: 1 for an
\* inverted curve without easing, 2 for an inverted curve with easing, 3 for
\* a normal curve without easing, 4 for a normal curve with easing, where
\* exactly 0 is neither inverted nor easing.
C7_ScenarioTable ==
    returned =>
        /\ scenario \in 1..4
        /\ scenario \in DOMAIN SCENARIOS
        /\ (yield_curve # None /\ policy_spread # None) =>
              LET yc == yield_curve[1]
                  ps == policy_spread[1]
              IN  /\ (yc < 0 /\ ps >= 0) => scenario = 1
                  /\ (yc < 0 /\ ps < 0) => scenario = 2
                  /\ (yc >= 0 /\ ps >= 0) => scenario = 3
                  /\ (yc >= 0 /\ ps < 0) => scenario = 4
        /\ (yield_curve = Some(-20) /\ policy_spread = Some(30)) => scenario = 1
        /\ (yield_curve = Some(40) /\ policy_spread = Some(-10)) => scenario = 4
        /\ yield_curve = Some(0) => scenario \in {3, 4}
        /\ policy_spread = Some(0) => scenario \in {1, 3}

\* C7 witness: the boundary, a curve of exactly 0 with easing expected.
C7_Witness ==
    /\ returned
    /\ yield_curve = Some(0)
    /\ policy_spread = Some(-10)
    /\ scenario = 4

-----------------------------------------------------------------------------
(* assess_macro_risk (lines 234-331).                                      *)
(* A table is a function from its column names to series on one index.     *)

MaxRows == 2

\* The index of a table: that of its DGS10 column (line 194).
DfIndex(frame) == DOMAIN frame["DGS10"]

\* frame[col].dropna(): the labels that carry a value.
dropna(series) == {d \in DOMAIN series : series[d] # None}

Warn(acc, points, message) ==
    [score |-> acc.score + points, warnings |-> Append(acc.warnings, message)]

\* Lines 241-247.
RuleYieldCurve(acc, yc) ==
    IF Lt(yc, 0) THEN Warn(acc, 3, "yield curve inverted")
    ELSE IF Lt(yc, 30) THEN Warn(acc, 1, "yield curve flattening")
    ELSE acc

\* Lines 250-255.
RuleDgs10(acc, v) ==
    IF Gt(v, 450) THEN Warn(acc, 2, "10y yield at high")
    ELSE IF Gt(v, 400) THEN Warn(acc, 1, "10y yield rising")
    ELSE acc

\* (mutant) the upper threshold of the spread rule read as >=.
RuleHySpread_AtLeast(acc, hy) ==
    IF Ge(hy, 500) THEN Warn(acc, 3, "high-yield spread spike")
    ELSE IF Gt(hy, 450) THEN Warn(acc, 2, "high-yield spread widening")
    ELSE acc

\* Lines 258-264.
RuleHySpread(acc, hy) ==
    IF Gt(hy, 500) THEN Warn(acc, 3, "high-yield spread spike")
    ELSE IF Gt(hy, 450) THEN Warn(acc, 2, "high-yield spread widening")
    ELSE acc

\* Lines 267-273.
RuleRateGap(acc, rg) ==
    IF Gt(rg, 100) THEN Warn(acc, 2, "rate gap excessive")
    ELSE IF Gt(rg, 50) THEN Warn(acc, 1, "rate gap widening")
    ELSE acc

\* Lines 276-285.
RuleCreditCard(acc, frame) ==
    IF "CC_DELINQ" \in DOMAIN frame /\ dropna(frame["CC_DELINQ"]) # {}
    THEN LET cc_val == frame["CC_DELINQ"][SetMax(dropna(frame["CC_DELINQ"]))]
         IN  IF Gt(cc_val, 500) THEN Warn(acc, 3, "credit card delinquency >5%")
             ELSE IF Gt(cc_val, 350)
                  THEN Warn(acc, 2, "credit card delinquency surging")
             ELSE acc
    ELSE acc

\* Lines 288-297.
RuleCre(acc, frame) ==
    IF "CRE_DELINQ_ALL" \in DOMAIN frame /\ dropna(frame["CRE_DELINQ_ALL"]) # {}
    THEN LET cre_val == frame["CRE_DELINQ_ALL"][SetMax(dropna(frame["CRE_DELINQ_ALL"]))]
         IN  IF Gt(cre_val, 300) THEN Warn(acc, 3, "CRE delinquency >3%")
             ELSE IF Gt(cre_val, 200) THEN Warn(acc, 2, "CRE delinquency rising")
             ELSE acc
    ELSE acc

\* Lines 300-309.
RuleAuto(acc, frame) ==
    IF "AUTO_DELINQ" \in DOMAIN frame /\ dropna(frame["AUTO_DELINQ"]) # {}
    THEN LET au_val == frame["AUTO_DELINQ"][SetMax(dropna(frame["AUTO_DELINQ"]))]
         IN  IF Gt(au_val, 300) THEN Warn(acc, 2, "auto delinquency >3%")
             ELSE IF Gt(au_val, 250) THEN Warn(acc, 1, "auto delinquency rising")
             ELSE acc
    ELSE acc

\* Lines 312-323.
RiskLevel(risk_score) ==
    IF risk_score >= 10 THEN [level |-> "CRITICAL RISK", color |-> "darkred"]
    ELSE IF risk_score >= 7 THEN [level |-> "HIGH RISK", color |-> "red"]
    ELSE IF risk_score >= 4 THEN [level |-> "MEDIUM RISK", color |-> "orange"]
    ELSE [level |-> "LOW RISK", color |-> "green"]

\* The result before the function has run, and when it raised.
NoRisk(exc) ==
    [raised |-> exc, score |-> 0, level |-> "", color |-> "",
     warnings |-> <<>>]

\* Lines 234-331.  df.iloc[-1] raises IndexError on a table without rows.
assess_macro_risk(frame) ==
    IF DfIndex(frame) = {} THEN NoRisk("IndexError")
    ELSE
    LET last == SetMax(DfIndex(frame))
        a1 == RuleYieldCurve([score |-> 0, warnings |-> <<>>],
                             frame["YIELD_CURVE"][last])
        a2 == RuleDgs10(a1, frame["DGS10"][last])
        a3 == RuleHySpread(a2, frame["HY_SPREAD"][last])
        a4 == RuleRateGap(a3, frame["RATE_GAP"][last])
        a5 == RuleCreditCard(a4, frame)
        a6 == RuleCre(a5, frame)
        a7 == RuleAuto(a6, frame)
        lv == RiskLevel(a7.score)
    IN  [raised |-> "none", score |-> a7.score, level |-> lv.level,
         color |-> lv.color, warnings |-> a7.warnings]

\* Inputs.  The latest row: the yield curve, the 10-year yield, and the
\* spread and the rate gap together at one of four settings.
LatestRows ==
    { [YIELD_CURVE |-> yc, DGS10 |-> dgs, HY_SPREAD |-> m[1], RATE_GAP |-> m[2]] :
        yc \in {None, Some(-10), Some(0), Some(30)},
        dgs \in {Some(400), Some(450), Some(460)},
        m \in { <<Some(450), Some(50)>>, <<Some(500), Some(100)>>,
                <<Some(520), Some(120)>>, <<None, None>> } }

CcValues == {None, Some(500), Some(510)}
CreValues == {None, Some(200), Some(250)}
AutoValues == {None, Some(300), Some(310)}

\* A column that holds v on the last of n rows and nothing before.
LastOnly(n, v) == [d \in 1..n |-> IF d = n THEN v ELSE None]

\* The table of n rows with the given latest row and, when with_delinq, the
\* three delinquency columns.
RiskTable(n, row, with_delinq, cc, cre, au) ==
    LET main == [YIELD_CURVE |-> LastOnly(n, row.YIELD_CURVE),
                 DGS10 |-> LastOnly(n, row.DGS10),
                 HY_SPREAD |-> LastOnly(n, row.HY_SPREAD),
                 RATE_GAP |-> LastOnly(n, row.RATE_GAP)]
    IN  IF with_delinq
        THEN main @@ [CC_DELINQ |-> cc, CRE_DELINQ_ALL |-> cre, AUTO_DELINQ |-> au]
        ELSE main

IdleRisk ==
    /\ risk_df = <<>>
    /\ risk_info = NoRisk("not called")

InitRisk ==
    /\ \E n \in 1..MaxRows, row \in LatestRows :
          \/ risk_df = RiskTable(n, row, FALSE, <<>>, <<>>, <<>>)
          \/ \E cc \in [1..n -> CcValues], cre \in [1..n -> CreValues],
                au \in [1..n -> AutoValues] :
                risk_df = RiskTable(n, row, TRUE, cc, cre, au)
    /\ risk_info = NoRisk("not called")

CallAssessMacroRisk ==
    /\ ~returned
    /\ risk_info' = assess_macro_risk(risk_df)
    /\ returned' = TRUE
    /\ UNCHANGED risk_df

\* C6 vocabulary: the points of a two-tier rule "above hi: hiPts; above lo:
\* loPts", of the yield-curve rule, and the value a delinquency rule reads.
PointsAbove(x, hi, hiPts, lo, loPts) ==
    IF x # None /\ x[1] > hi THEN hiPts
    ELSE IF x # None /\ x[1] > lo THEN loPts ELSE 0

PointsCurve(x) ==
    IF x # None /\ x[1] < 0 THEN 3 ELSE IF x # None /\ x[1] < 30 THEN 1 ELSE 0

LatestValid(frame, col) ==
    IF col \notin DOMAIN frame \/ \A d \in DOMAIN frame[col] : frame[col][d] = None
    THEN None
    ELSE frame[col][SetMax({d \in DOMAIN frame[col] : frame[col][d] # None})]

\* The points of the seven rules, in rule order.
RulePoints(frame) ==
    LET last == SetMax(DfIndex(frame))
    IN  << PointsCurve(frame["YIELD_CURVE"][last]),
           PointsAbove(frame["DGS10"][last], 450, 2, 400, 1),
           PointsAbove(frame["HY_SPREAD"][last], 500, 3, 450, 2),
           PointsAbove(frame["RATE_GAP"][last], 100, 2, 50, 1),
           PointsAbove(LatestValid(frame, "CC_DELINQ"), 500, 3, 350, 2),
           PointsAbove(LatestValid(frame, "CRE_DELINQ_ALL"), 300, 3, 200, 2),
           PointsAbove(LatestValid(frame, "AUTO_DELINQ"), 300, 2, 250, 1) >>

\* The rule a warning message belongs to.
RuleOfWarning(message) ==
    CASE message \in {"yield curve inverted", "yield curve flattening"} -> 1
      [] message \in {"10y yield at high", "10y yield rising"} -> 2
      [] message \in {"high-yield spread spike", "high-yield spread widening"} -> 3
      [] message \in {"rate gap excessive", "rate gap widening"} -> 4
      [] message \in {"credit card delinquency >5%",
                      "credit card delinquency surging"} -> 5
      [] message \in {"CRE delinquency >3%", "CRE delinquency rising"} -> 6
      [] message \in {"auto delinquency >3%", "auto delinquency rising"} -> 7
      [] OTHER -> 0

\* C6: the score is the sum of the points of the seven rules, the warnings
\* are one per triggered rule in rule order, and the level is CRITICAL iff
\* score >= 10, HIGH iff 7 <= score < 10, MEDIUM iff 4 <= score < 7, LOW
\* otherwise; the literal example scores 10, CRITICAL, with four warnings.
C6_RiskScore ==
    returned =>
        LET pts == RulePoints(risk_df)
            triggered == SortedDates({r \in 1..7 : pts[r] > 0})
            w == risk_info.warnings
            last == SetMax(DfIndex(risk_df))
        IN  /\ risk_info.raised = "none"
            /\ risk_info.score
                 = pts[1] + pts[2] + pts[3] + pts[4] + pts[5] + pts[6] + pts[7]
            /\ [i \in 1..Len(w) |-> RuleOfWarning(w[i])] = triggered
            /\ (risk_info.level = "CRITICAL RISK") <=> (risk_info.score >= 10)
            /\ (risk_info.level = "HIGH RISK")
                 <=> (7 <= risk_info.score /\ risk_info.score < 10)
            /\ (risk_info.level = "MEDIUM RISK")
                 <=> (4 <= risk_info.score /\ risk_info.score < 7)
            /\ (risk_info.level = "LOW RISK") <=> (risk_info.score < 4)
            /\ ( /\ risk_df["YIELD_CURVE"][last] = Some(-10)
                 /\ risk_df["DGS10"][last] = Some(460)
                 /\ risk_df["HY_SPREAD"][last] = Some(520)
                 /\ risk_df["RATE_GAP"][last] = Some(120)
                 /\ LatestValid(risk_df, "CC_DELINQ") = None
                 /\ LatestValid(risk_df, "CRE_DELINQ_ALL") = None
                 /\ LatestValid(risk_df, "AUTO_DELINQ") = None )
               => /\ risk_info.score = 10
                  /\ risk_info.level = "CRITICAL RISK"
                  /\ w = << "yield curve inverted", "10y yield at high",
                            "high-yield spread spike", "rate gap excessive" >>

\* C6 witness: a table of two rows whose credit-card column is absent on the
\* latest row, so that the rule reads the row before, and whose score
\* reaches HIGH with the spread exactly on its upper threshold.
C6_Witness ==
    /\ returned
    /\ DfIndex(risk_df) = {1, 2}
    /\ "CC_DELINQ" \in DOMAIN risk_df
    /\ risk_df["CC_DELINQ"][2] = None
    /\ risk_df["CC_DELINQ"][1] = Some(510)
    /\ risk_df["HY_SPREAD"][2] = Some(500)
    /\ risk_info.level = "HIGH RISK"
    /\ "credit card delinquency >5%" \in
          {risk_info.warnings[i] : i \in 1..Len(risk_info.warnings)}

-----------------------------------------------------------------------------
(* extract_section (lines 350-374).                                        *)
(* A string is a sequence of tokens: each of the four word markers is one  *)
(* token, the backtick is a token (a code fence is three of them in a      *)
(* row), and so are a blank and a word of prose.  Offsets count from 0, as *)
(* in the source.                                                          *)

MaxText == 5

MARKET_STATUS == <<"MARKET_STATUS:">>
KEY_RISKS == <<"KEY_RISKS:">>
STRATEGY == <<"STRATEGY:">>
FULL_ANALYSIS == <<"FULL_ANALYSIS:">>
CodeFence == <<"BACKTICK", "BACKTICK", "BACKTICK">>

\* Line 358.
next_sections == <<MARKET_STATUS, KEY_RISKS, STRATEGY, FULL_ANALYSIS, CodeFence>>

\* text[a:b]
Slice(str, a, b) == SubSeq(str, a + 1, b)

\* Whether sub occurs in str at offset i.
OccursAt(str, sub, i) ==
    /\ 0 <= i
    /\ i + Len(sub) <= Len(str)
    /\ Slice(str, i, i + Len(sub)) = sub

RECURSIVE find(_, _, _)
\* str.find(sub, start): the lowest offset >= start where sub occurs, or -1.
find(str, sub, start) ==
    IF start + Len(sub) > Len(str) THEN -1
    ELSE IF OccursAt(str, sub, start) THEN start
    ELSE find(str, sub, start + 1)

IsSpace(tok) == tok = " "

RECURSIVE lstrip(_)
lstrip(str) ==
    IF str # <<>> /\ IsSpace(Head(str)) THEN lstrip(Tail(str)) ELSE str

RECURSIVE rstrip(_)
rstrip(str) ==
    IF str # <<>> /\ IsSpace(str[Len(str)])
    THEN rstrip(SubSeq(str, 1, Len(str) - 1)) ELSE str

\* str.strip()
strip(str) == rstrip(lstrip(str))

RECURSIVE replace(_, _)
\* str.replace(old, ""): the occurrences of old, left to right, removed.
replace(str, old) ==
    IF Len(str) < Len(old) THEN str
    ELSE IF OccursAt(str, old, 0)
         THEN replace(Slice(str, Len(old), Len(str)), old)
    ELSE <<Head(str)>> \o replace(Tail(str), old)

\* (mutant) the marker itself is not skipped among the terminators.
EndStep_NoSkip(str, name, start, end, next_section) ==
    LET pos == find(str, next_section, start)
    IN  IF pos # -1 /\ pos < end THEN pos ELSE end

\* Lines 362-366: one iteration of the loop over next_sections.
EndStep(str, name, start, end, next_section) ==
    IF next_section = name THEN end
    ELSE LET pos == find(str, next_section, start)
         IN  IF pos # -1 /\ pos < end THEN pos ELSE end

RECURSIVE EndLoop(_, _, _, _, _)
\* Lines 361-366: the loop, from the k-th entry of next_sections on.
EndLoop(str, name, start, end, k) ==
    IF k > Len(next_sections) THEN end
    ELSE EndLoop(str, name, start,
                 EndStep(str, name, start, end, next_sections[k]), k + 1)

\* Lines 350-374.
extract_section(str, name) ==
    IF find(str, name, 0) = -1 THEN None
    ELSE LET start == find(str, name, 0) + Len(name)
             end == EndLoop(str, name, start, Len(str), 1)
         IN  Some(strip(replace(strip(Slice(str, start, end)), CodeFence)))

ExtractTokens == {"MARKET_STATUS:", "KEY_RISKS:", "BACKTICK", " ", "A."}

SectionNames == {MARKET_STATUS, KEY_RISKS, FULL_ANALYSIS, CodeFence, <<"A.">>}

\* "MARKET_STATUS: A. KEY_RISKS: B. STRATEGY: C."
ExampleResponse ==
    << "MARKET_STATUS:", " ", "A.", " ", "KEY_RISKS:", " ", "B.", " ",
       "STRATEGY:", " ", "C." >>

IdleExtract ==
    /\ text = <<>>
    /\ section_name = <<>>
    /\ section = None

InitExtract ==
    /\ \/ \E n \in 0..MaxText : text \in [1..n -> ExtractTokens]
       \/ text = ExampleResponse
    /\ section_name \in SectionNames
    /\ section = None

CallExtractSection ==
    /\ ~returned
    /\ section' = extract_section(text, section_name)
    /\ returned' = TRUE
    /\ UNCHANGED <<text, section_name>>

\* C8 vocabulary: the offsets at which a string occurs.
Occurrences(str, sub) == {i \in 0..Len(str) : OccursAt(str, sub, i)}

\* The text between the first occurrence of the marker and the nearest later
\* occurrence of one of the terminators (or the end of the text), cleaned.
SectionUpTo(str, name, terminators) ==
    LET start == SetMin(Occurrences(str, name)) + Len(name)
        stops == UNION { {i \in Occurrences(str, t) : i >= start} : t \in terminators }
        end == SetMin(stops \cup {Len(str)})
    IN  strip(replace(strip(Slice(str, start, end)), CodeFence))

FiveMarkers == {next_sections[k] : k \in 1..Len(next_sections)}

\* C8 as stated: without the marker the result is no value; otherwise it is
\* the text from just after the first occurrence of the marker to the nearest
\* later occurrence of ANY of the five fixed strings, cleaned.
C8_EndsAtAnyMarker ==
    returned =>
        IF Occurrences(text, section_name) = {}
        THEN section = None
        ELSE section = Some(SectionUpTo(text, section_name, FiveMarkers))

\* C8 amended: the text ends at the nearest later occurrence of any of the
\* five fixed strings OTHER THAN the marker asked for; the literal example
\* yields "A." for "MARKET_STATUS:" and no value for an absent marker.
C8_EndsAtOtherMarker ==
    returned =>
        /\ IF Occurrences(text, section_name) = {}
           THEN section = None
           ELSE section = Some(SectionUpTo(text, section_name,
                                           FiveMarkers \ {section_name}))
        /\ (text = ExampleResponse /\ section_name = MARKET_STATUS)
              => section = Some(<<"A.">>)
        /\ (text = ExampleResponse /\ section_name = FULL_ANALYSIS)
              => section = None

\* C8 witness: the literal example, where the section asked for is ended by
\* the next marker although two markers follow, and the result is trimmed.
C8_Witness ==
    /\ returned
    /\ section_name = MARKET_STATUS
    /\ text = ExampleResponse
    /\ section = Some(<<"A.">>)

-----------------------------------------------------------------------------
(* build_master_df (lines 191-208).                                        *)

MaxDates == 2

\* The names of the sixteen series in the collection (lines 171-186).
SeriesNames ==
    << "DGS10", "DGS2", "T10Y2Y", "HY_SPREAD", "IG_SPREAD", "FEDFUNDS", "EFFR",
       "WALCL", "CC_DELINQ", "CONS_DELINQ", "AUTO_DELINQ", "CRE_DELINQ_ALL",
       "CRE_DELINQ_TOP100", "CRE_DELINQ_SMALL", "RE_DELINQ_ALL", "CRE_LOAN_AMT" >>

NameSet == {SeriesNames[k] : k \in 1..Len(SeriesNames)}

\* Whether s.reindex(index, method='ffill') raises: when pd.Series(dtype=float)
\* carries a RangeIndex, the labels of an empty series cannot be compared
\* with a non-empty index of dates ("Cannot compare dtypes int64 and
\* datetime64[ns]"); an empty target is answered before any comparison.
ReindexRaises(series, index, emptyKind) ==
    DOMAIN series = {} /\ index # {} /\ emptyKind = "range"

\* s.reindex(index, method='ffill'): on each label of the index, the value
\* at the last label of s that is not later.
reindex_ffill(series, index) ==
    [t \in index |->
        LET upto == {d \in DOMAIN series : d <= t}
        IN  IF upto = {} THEN None ELSE series[SetMax(upto)]]

\* Lines 193-199: the table of the sixteen columns on the index of DGS10.
Reindexed(sd) ==
    [name \in NameSet |->
        IF name = "DGS10" THEN sd["DGS10"]
        ELSE reindex_ffill(sd[name], DOMAIN sd["DGS10"])]

\* Lines 202-203: the direct and the calculated spread.
WithSpreads(t) ==
    t @@ [YIELD_CURVE_DIRECT |-> t["T10Y2Y"],
          YIELD_CURVE_CALC |-> [d \in DOMAIN t["DGS10"] |->
                                   Sub(t["DGS10"][d], t["DGS2"][d])]]

\* a.fillna(b): b where a is absent.
fillna(a, b) == [d \in DOMAIN a |-> IF a[d] = None THEN b[d] ELSE a[d]]

\* (mutant) the calculated spread preferred to the direct one.
Coalesce_PreferCalc(t) ==
    t @@ [YIELD_CURVE |-> fillna(t["YIELD_CURVE_CALC"], t["YIELD_CURVE_DIRECT"])]

\* Line 204: the coalesced yield curve.
Coalesce(t) ==
    t @@ [YIELD_CURVE |-> fillna(t["YIELD_CURVE_DIRECT"], t["YIELD_CURVE_CALC"])]

\* Lines 205-206.
WithGaps(t) ==
    t @@ [RATE_GAP |-> [d \in DOMAIN t["DGS10"] |->
                           Sub(t["DGS10"][d], t["FEDFUNDS"][d])],
          POLICY_SPREAD |-> [d \in DOMAIN t["DGS10"] |->
                                Sub(t["DGS2"][d], t["EFFR"][d])]]

\* Line 208: df.dropna(subset=['DGS10']).
DropNaDgs10(t) ==
    LET keep == {d \in DOMAIN t["DGS10"] : t["DGS10"][d] # None}
    IN  [col \in DOMAIN t |-> [d \in keep |-> t[col][d]]]

\* Lines 191-208.  The result names the exception raised, if any, the table
\* and the table as it stood before line 204.
build_master_df(sd, emptyKind) ==
    IF \E name \in NameSet \ {"DGS10"} :
           ReindexRaises(sd[name], DOMAIN sd["DGS10"], emptyKind)
    THEN [raised |-> "TypeError", df |-> <<>>, before_fill |-> <<>>]
    ELSE LET before == WithSpreads(Reindexed(sd))
         IN  [raised |-> "none",
              df |-> DropNaDgs10(WithGaps(Coalesce(before))),
              before_fill |-> before]

\* Inputs: a series observed once, on date 1, for the columns the claim is
\* not about.
OneObservation(v) == [d \in {1} |-> Some(v)]

BuildInput(dgs10, dgs2, t10y2y) ==
    [name \in NameSet |->
        CASE name = "DGS10" -> dgs10
          [] name = "DGS2" -> dgs2
          [] name = "T10Y2Y" -> t10y2y
          [] OTHER -> OneObservation(433)]

IdleData ==
    /\ empty_index = "object"
    /\ series_dict = <<>>
    /\ st_warnings = <<>>
    /\ df = <<>>
    /\ df_before_fill = <<>>
    /\ raised = "none"
    /\ step = "idle"

InitBuild ==
    /\ empty_index \in {"object", "range"}
    /\ \E a \in 0..MaxDates, b \in 0..MaxDates, c \in 0..MaxDates :
         \E dgs10 \in [1..a -> {None, Some(400), Some(460)}],
            dgs2 \in [1..b -> {None, Some(410)}],
            t10y2y \in [1..c -> {None, Some(-10), Some(50)}] :
            series_dict = BuildInput(dgs10, dgs2, t10y2y)
    /\ st_warnings = <<>>
    /\ df = <<>>
    /\ df_before_fill = <<>>
    /\ raised = "none"
    /\ step = "loaded"

CallBuildMasterDf ==
    /\ step = "loaded"
    /\ LET r == build_master_df(series_dict, empty_index)
       IN  /\ df' = r.df
           /\ df_before_fill' = r.before_fill
           /\ raised' = r.raised
           /\ step' = IF r.raised = "none" THEN "built" ELSE "raised"
    /\ UNCHANGED <<empty_index, series_dict, st_warnings>>

\* C9 vocabulary: the value a series shows on a date, carried forward from
\* its last observation, and the two source spreads of a date.
AsOf(series, date) ==
    IF \A d \in DOMAIN series : d > date THEN None
    ELSE series[SetMax({d \in DOMAIN series : d <= date})]

DirectSpread(sd, date) == AsOf(sd["T10Y2Y"], date)

CalculatedSpread(sd, date) ==
    IF sd["DGS10"][date] = None \/ AsOf(sd["DGS2"], date) = None THEN None
    ELSE Some(sd["DGS10"][date][1] - AsOf(sd["DGS2"], date)[1])

\* C9: in every row of the built table the yield curve is the direct spread
\* when that is present on the date, and the calculated difference only when
\* it is absent; so it is present whenever one of the two is; and the fill
\* leaves every other column as it was.
C9_Coalesce ==
    step = "built" =>
        /\ \A d \in DfIndex(df) :
              LET direct == DirectSpread(series_dict, d)
                  calc == CalculatedSpread(series_dict, d)
              IN  /\ direct # None => df["YIELD_CURVE"][d] = direct
                  /\ direct = None => df["YIELD_CURVE"][d] = calc
                  /\ (direct # None \/ calc # None) => df["YIELD_CURVE"][d] # None
                  /\ df["YIELD_CURVE_DIRECT"][d] = direct
                  /\ df["YIELD_CURVE_CALC"][d] = calc
        /\ \A col \in DOMAIN df_before_fill :
              \A d \in DfIndex(df) : df[col][d] = df_before_fill[col][d]
        /\ DOMAIN df = DOMAIN df_before_fill
                         \cup {"YIELD_CURVE", "RATE_GAP", "POLICY_SPREAD"}

\* C9 witness: a date where the direct spread is absent and both yields are
\* present, filled with their difference, beside a date where the direct
\* spread is present and differs from the difference.
C9_Witness ==
    /\ step = "built"
    /\ \E d \in DfIndex(df) :
          /\ DirectSpread(series_dict, d) = None
          /\ CalculatedSpread(series_dict, d) # None
          /\ df["YIELD_CURVE"][d] = CalculatedSpread(series_dict, d)
    /\ \E d \in DfIndex(df) :
          /\ DirectSpread(series_dict, d) # None
          /\ CalculatedSpread(series_dict, d) # None
          /\ CalculatedSpread(series_dict, d) # DirectSpread(series_dict, d)
          /\ df["YIELD_CURVE"][d] = DirectSpread(series_dict, d)

-----------------------------------------------------------------------------
(* The data provider, fetch_series_with_ffill and load_all_series          *)
(* (lines 151-189).                                                        *)

MaxToday == 4
MaxCalls == 3
MaxTime == 7200

\* ttl=3600 of the two st.cache_data decorators.
ttl == 3600

FirstDay == 3
StartDates == {1, 2}
TimeSteps == {3599, 3600}

\* The provider's identifier of each series (lines 171-186).
FredId(name) ==
    CASE name = "HY_SPREAD" -> "BAMLH0A0HYM2"
      [] name = "IG_SPREAD" -> "BAMLC0A0CM"
      [] name = "CC_DELINQ" -> "DRCCLACBS"
      [] name = "CONS_DELINQ" -> "DRCLACBS"
      [] name = "AUTO_DELINQ" -> "DROCLACBS"
      [] name = "CRE_DELINQ_ALL" -> "DRCRELEXFACBS"
      [] name = "CRE_DELINQ_TOP100" -> "DRCRELEXFT100S"
      [] name = "CRE_DELINQ_SMALL" -> "DRCRELEXFOBS"
      [] name = "RE_DELINQ_ALL" -> "DRSREACBS"
      [] name = "CRE_LOAN_AMT" -> "CREACBM027NBOG"
      [] OTHER -> name

\* The provider's data.  The rates and spreads are daily, the other series
\* are published on odd dates only; the three Treasury series carry no value
\* on date 2 (a market holiday).
DailySeries == {"DGS10", "DGS2", "T10Y2Y", "HY_SPREAD", "IG_SPREAD", "EFFR"}

ObservationDates(name, day) ==
    {d \in 1..day : name \in DailySeries \/ d % 2 = 1}

ObservedValue(name, d) ==
    IF name \in {"DGS10", "DGS2", "T10Y2Y"} /\ d = 2 THEN None
    ELSE CASE name = "DGS10" -> Some(440 + 10 * d)
           [] name = "DGS2" -> Some(480 - 5 * d)
           [] name = "T10Y2Y" -> Some(15 * d - 40)
           [] name = "HY_SPREAD" -> Some(440 + 20 * d)
           [] name = "IG_SPREAD" -> Some(100 + d)
           [] name = "FEDFUNDS" -> Some(433)
           [] name = "EFFR" -> Some(433 - d)
           [] name = "CC_DELINQ" -> Some(300 + 20 * d)
           [] name = "CRE_DELINQ_ALL" -> Some(150 + 20 * d)
           [] name = "AUTO_DELINQ" -> Some(240 + 5 * d)
           [] OTHER -> Some(200 + d)

\* Line 155: fred.get_series(series_id, observation_start=start_date), when
\* the request succeeds.
get_series(name, start, day) ==
    [d \in {x \in ObservationDates(name, day) : x >= start} |->
        ObservedValue(name, d)]

\* Series.ffill(): every label takes the last value present up to it.
ffill(series) ==
    [t \in DOMAIN series |->
        LET seen == {d \in DOMAIN series : d <= t /\ series[d] # None}
        IN  IF seen = {} THEN None ELSE series[SetMax(seen)]]

\* Lines 152-163: the body of fetch_series_with_ffill.  A failing request is
\* caught: a warning and an empty series.
fetch_series_with_ffill(name, start, day, fails) ==
    IF name \in fails
    THEN [data |-> EmptySeries, warned |-> TRUE]
    ELSE LET data == get_series(name, start, day)
         IN  IF DOMAIN data # {}
             THEN [data |-> ffill(data), warned |-> FALSE]
             ELSE [data |-> EmptySeries, warned |-> FALSE]

\* (mutant) an entry kept for half an hour only.
Fresh_HalfHour(entry, clock) == clock - entry.stored < 1800

\* st.cache_data(ttl=3600): an entry is served while younger than the ttl.
Fresh(entry, clock) == clock - entry.stored < ttl

\* Line 151: fetch_series_with_ffill behind its cache, keyed by the series
\* and the start date.  acc carries the cache, the collection built so far,
\* the warnings shown and the number of requests issued.
CachedFetch(acc, name, start, clock, day, fails) ==
    LET key == <<FredId(name), start>>
    IN  IF key \in DOMAIN acc.cache /\ Fresh(acc.cache[key], clock)
        THEN LET e == acc.cache[key]
             IN  [acc EXCEPT
                    !.result = (name :> e.value) @@ @,
                    !.warnings = IF e.warned THEN Append(@, name) ELSE @]
        ELSE LET r == fetch_series_with_ffill(name, start, day, fails)
             IN  [cache |-> (key :> [value |-> r.data, warned |-> r.warned,
                                     stored |-> clock]) @@ acc.cache,
                  result |-> (name :> r.data) @@ acc.result,
                  warnings |-> IF r.warned THEN Append(acc.warnings, name)
                               ELSE acc.warnings,
                  requests |-> acc.requests + 1]

RECURSIVE FetchAll(_, _, _, _, _, _)
\* Lines 170-187: the sixteen fetches, from the k-th on.
FetchAll(acc, k, start, clock, day, fails) ==
    IF k > Len(SeriesNames) THEN acc
    ELSE FetchAll(CachedFetch(acc, SeriesNames[k], start, clock, day, fails),
                  k + 1, start, clock, day, fails)

\* Lines 165-189: load_all_series behind its cache, keyed by the start date.
load_all_series(start, clock, fcache, lcache, day, fails) ==
    IF start \in DOMAIN lcache /\ Fresh(lcache[start], clock)
    THEN [result |-> lcache[start].value, warnings |-> lcache[start].warnings,
          requests |-> 0, fetch_cache |-> fcache, load_cache |-> lcache]
    ELSE LET acc == FetchAll([cache |-> fcache, result |-> <<>>,
                              warnings |-> <<>>, requests |-> 0],
                             1, start, clock, day, fails)
         IN  [result |-> acc.result, warnings |-> acc.warnings,
              requests |-> acc.requests, fetch_cache |-> acc.cache,
              load_cache |-> (start :> [value |-> acc.result,
                                        warnings |-> acc.warnings,
                                        stored |-> clock]) @@ lcache]

IdleCache ==
    /\ today = FirstDay
    /\ failing = {}
    /\ now = 0
    /\ fetch_cache = <<>>
    /\ load_cache = <<>>
    /\ history = <<>>

\* The outages the cache is exercised with.
CacheOutages == {{}, {"DGS10"}}

InitCache ==
    /\ today = FirstDay
    /\ failing \in CacheOutages
    /\ now = 0
    /\ fetch_cache = <<>>
    /\ load_cache = <<>>
    /\ history = <<>>

\* Time passes.
Tick(dt) ==
    /\ now + dt <= MaxTime
    /\ now' = now + dt
    /\ UNCHANGED <<today, failing, fetch_cache, load_cache, history>>

\* The provider publishes the observations of one more date.
Publish ==
    /\ today < MaxToday
    /\ today' = today + 1
    /\ UNCHANGED <<failing, now, fetch_cache, load_cache, history>>

\* A series of the provider starts or stops failing.
SetOutage(fails) ==
    /\ fails # failing
    /\ failing' = fails
    /\ UNCHANGED <<today, now, fetch_cache, load_cache, history>>

\* One call of load_all_series(start_date).
CallLoadAllSeries(start) ==
    /\ Len(history) < MaxCalls
    /\ LET r == load_all_series(start, now, fetch_cache, load_cache, today,
                                failing)
       IN  /\ fetch_cache' = r.fetch_cache
           /\ load_cache' = r.load_cache
           /\ history' = Append(history, [start_date |-> start, at |-> now,
                                          requests |-> r.requests,
                                          result |-> r.result])
    /\ UNCHANGED <<today, failing, now>>

NextCache ==
    \/ \E dt \in TimeSteps : Tick(dt)
    \/ Publish
    \/ \E fails \in CacheOutages : SetOutage(fails)
    \/ \E start \in StartDates : CallLoadAllSeries(start)

\* C3: a call made less than 3600 seconds after an earlier call with the
\* same start date that contacted the provider returns that call's result,
\* empty series included, and issues no request; and a call that issues no
\* request returns the result of an earlier call with the same start date,
\* never that of another one.
C3_CachedWithinTtl ==
    \A j \in 1..Len(history) :
        /\ \A i \in 1..(j - 1) :
              ( /\ history[i].start_date = history[j].start_date
                /\ history[i].requests > 0
                /\ history[j].at - history[i].at < 3600 )
              => /\ history[j].result = history[i].result
                 /\ history[j].requests = 0
        /\ history[j].requests = 0 =>
              \E i \in 1..(j - 1) :
                 /\ history[i].start_date = history[j].start_date
                 /\ history[i].requests > 0
                 /\ history[i].result = history[j].result
        /\ \A name \in NameSet :
              \A d \in DOMAIN history[j].result[name] :
                 d >= history[j].start_date

\* C3 witness: a call whose fetch of one series failed, then, 3599 seconds
\* later, after the provider has recovered and published new data, a second
\* call with the same start date that gets the first result back without a
\* request, and a third call with another start date that goes to the
\* provider.
C3_Witness ==
    /\ Len(history) = 3
    /\ history[1].start_date = history[2].start_date
    /\ history[1].requests = 16
    /\ history[1].result["DGS10"] = EmptySeries
    /\ history[2].at - history[1].at = 3599
    /\ history[2].requests = 0
    /\ history[2].result = history[1].result
    /\ failing = {}
    /\ today > FirstDay
    /\ history[3].start_date # history[1].start_date
    /\ history[3].requests = 16

-----------------------------------------------------------------------------
(* The pipeline: load_all_series, build_master_df, assess_macro_risk and   *)
(* determine_scenario on the latest row.                                   *)

\* The provider fails for no series or for exactly one.
InitPipeline ==
    /\ today \in FirstDay..MaxToday
    /\ failing \in {{}} \cup {{name} : name \in NameSet}
    /\ now = 0
    /\ fetch_cache = <<>>
    /\ load_cache = <<>>
    /\ history = <<>>
    /\ empty_index \in {"object", "range"}
    /\ series_dict = <<>>
    /\ st_warnings = <<>>
    /\ df = <<>>
    /\ df_before_fill = <<>>
    /\ raised = "none"
    /\ step = "start"

\* series_dict = load_all_series(start_date)
LoadSeries(start) ==
    /\ step = "start"
    /\ LET r == load_all_series(start, now, fetch_cache, load_cache, today,
                                failing)
       IN  /\ series_dict' = r.result
           /\ st_warnings' = r.warnings
           /\ fetch_cache' = r.fetch_cache
           /\ load_cache' = r.load_cache
           /\ history' = Append(history, [start_date |-> start, at |-> now,
                                          requests |-> r.requests,
                                          result |-> r.result])
    /\ step' = "loaded"
    /\ UNCHANGED <<today, failing, now, empty_index, df, df_before_fill,
                   raised, risk_df, risk_info, scenVars>>

\* df = build_master_df(series_dict)
BuildMaster ==
    /\ CallBuildMasterDf
    /\ UNCHANGED <<cacheVars, riskVars, scenVars>>

\* risk_info = assess_macro_risk(df)
AssessRisk ==
    /\ step = "built"
    /\ risk_df' = df
    /\ risk_info' = assess_macro_risk(df)
    /\ raised' = risk_info'.raised
    /\ step' = IF risk_info'.raised = "none" THEN "assessed" ELSE "raised"
    /\ UNCHANGED <<cacheVars, scenVars, empty_index, series_dict, st_warnings,
                   df, df_before_fill>>

\* scenario = determine_scenario(latest['YIELD_CURVE'],
\*                               latest['POLICY_SPREAD'])
PickScenario ==
    /\ step = "assessed"
    /\ LET last == SetMax(DfIndex(df))
       IN  /\ yield_curve' = df["YIELD_CURVE"][last]
           /\ policy_spread' = df["POLICY_SPREAD"][last]
           /\ scenario' = determine_scenario(df["YIELD_CURVE"][last],
                                             df["POLICY_SPREAD"][last])
    /\ step' = "done"
    /\ UNCHANGED <<cacheVars, riskVars, empty_index, series_dict, st_warnings,
                   df, df_before_fill, raised>>

NextPipeline ==
    \/ \E start \in StartDates : LoadSeries(start)
    \/ BuildMaster
    \/ AssessRisk
    \/ PickScenario

\* C4: when the provider fails for exactly one series, the fetch of that
\* series records a warning and returns an empty series while the others
\* return their data, and no later step of the pipeline raises.
C4_FailureIsolated ==
    \A name \in NameSet :
        failing = {name} =>
            /\ step # "raised"
            /\ step # "start" =>
                  /\ series_dict[name] = EmptySeries
                  /\ st_warnings = <<name>>
                  /\ \A other \in NameSet \ {name} :
                        series_dict[other] # EmptySeries

\* C4, the part that holds: the fetches themselves never raise, the failed
\* series comes back empty with one warning, and the other series come back
\* with their data.
C4_FetchDoesNotRaise ==
    \A name \in NameSet :
        (failing = {name} /\ step # "start") =>
            /\ series_dict[name] = EmptySeries
            /\ st_warnings = <<name>>
            /\ \A other \in NameSet \ {name} :
                  series_dict[other] # EmptySeries

\* C4: the pipeline completes although a series other than DGS10 failed.
C4_Witness ==
    /\ failing = {"CC_DELINQ"}
    /\ step = "done"
    /\ scenario \in 1..4

\* C4: only the 10-year yield failed: whatever index the empty series
\* carries, the table has no row and assess_macro_risk raises on df.iloc[-1].
C4_IndexErrorOnEmptyBase ==
    (failing = {"DGS10"} /\ step \in {"assessed", "raised", "done"})
        => (step = "raised" /\ raised = "IndexError")

-----------------------------------------------------------------------------
(* Specifications.                                                         *)

IdleAuth ==
    /\ secrets = [passwords |-> [kind |-> "absent", table |-> <<>>],
                  FRED_API_KEY |-> FALSE, GEMINI_API_KEY |-> FALSE]
    /\ genai_ok = FALSE
    /\ password_correct = FALSE
    /\ pc = "idle"
    /\ submit_btn = FALSE
    /\ username = ""
    /\ password = ""
    /\ login_error = "none"
    /\ GEMINI_AVAILABLE = "unset"
    /\ fred = FALSE
    /\ fred_called = FALSE
    /\ genai_called = FALSE
    /\ submissions = <<>>
    /\ auth_at_start = FALSE

\* The session: login, startup, one pass of the dashboard body.
Init == InitAuth /\ returned = FALSE /\ IdleInv /\ IdleScen /\ IdleRisk /\ IdleExtract /\ IdleData /\ IdleCache
Next == NextAuth /\ UNCHANGED <<returned, invVars, scenVars, riskVars, extractVars, dataVars, cacheVars>>
Spec == Init /\ [][Next]_vars

\* find_inversion_periods on every bounded series.
InitInv == IdleAuth /\ returned = FALSE /\ InitInversion /\ IdleScen /\ IdleRisk /\ IdleExtract /\ IdleData /\ IdleCache
NextInv == CallFindInversionPeriods /\ UNCHANGED <<authVars, scenVars, riskVars, extractVars, dataVars, cacheVars>>
SpecInversion == InitInv /\ [][NextInv]_vars

\* determine_scenario on every pair of bounded values.
InitScen == IdleAuth /\ returned = FALSE /\ IdleInv /\ InitScenario /\ IdleRisk /\ IdleExtract /\ IdleData /\ IdleCache
NextScen == CallDetermineScenario /\ UNCHANGED <<authVars, invVars, riskVars, extractVars, dataVars, cacheVars>>
SpecScenario == InitScen /\ [][NextScen]_vars

\* assess_macro_risk on every bounded table.
InitRiskSpec == IdleAuth /\ returned = FALSE /\ IdleInv /\ IdleScen /\ InitRisk /\ IdleExtract /\ IdleData /\ IdleCache
NextRisk == CallAssessMacroRisk /\ UNCHANGED <<authVars, invVars, scenVars, extractVars, dataVars, cacheVars>>
SpecRisk == InitRiskSpec /\ [][NextRisk]_vars

\* extract_section on every bounded text and marker.
InitExtractSpec ==
    IdleAuth /\ returned = FALSE /\ IdleInv /\ IdleScen /\ IdleRisk /\ InitExtract /\ IdleData /\ IdleCache
NextExtract ==
    CallExtractSection /\ UNCHANGED <<authVars, invVars, scenVars, riskVars, dataVars, cacheVars>>
SpecExtract == InitExtractSpec /\ [][NextExtract]_vars

\* build_master_df on every bounded collection.
InitBuildSpec ==
    /\ IdleAuth /\ returned = FALSE /\ IdleInv /\ IdleScen /\ IdleRisk
    /\ IdleExtract /\ InitBuild /\ IdleCache
NextBuild ==
    /\ CallBuildMasterDf
    /\ UNCHANGED <<authVars, returned, invVars, scenVars, riskVars, extractVars, cacheVars>>
SpecBuild == InitBuildSpec /\ [][NextBuild]_vars

\* The pipeline, from the fetches to the scenario.
InitPipelineSpec ==
    /\ IdleAuth /\ returned = FALSE /\ IdleInv /\ IdleScen /\ IdleRisk
    /\ IdleExtract /\ InitPipeline
NextPipelineSpec ==
    /\ NextPipeline
    /\ UNCHANGED <<authVars, returned, invVars, extractVars>>
SpecPipeline == InitPipelineSpec /\ [][NextPipelineSpec]_vars

\* load_all_series called over time, against a provider that changes.
InitCacheSpec ==
    /\ IdleAuth /\ returned = FALSE /\ IdleInv /\ IdleScen /\ IdleRisk
    /\ IdleExtract /\ IdleData /\ InitCache
NextCacheSpec ==
    /\ NextCache
    /\ UNCHANGED <<authVars, returned, invVars, scenVars, riskVars, extractVars,
                   dataVars>>
SpecCache == InitCacheSpec /\ [][NextCacheSpec]_vars

=============================================================================
